---- MODULE Spec2Model ----
(***************************************************************************)
(* MSONRenderer (contrib/mson.py): conversion of a parsed Markdown token   *)
(* tree into nested Python values (str, list, dict, None, True, int).      *)
(*                                                                         *)
(* Python values are tagged records [k, v]:                                *)
(*   "S" str   (v: sequence of one-character strings)                      *)
(*   "L" list  (v: sequence of values)                                     *)
(*   "M" dict  (v: sequence of [key, val] entries in insertion order)      *)
(*   "I" int   (v: <<n>>)      "N" None      "T" True                      *)
(*   "E" an exception raised and not caught (the renderer has no           *)
(*       try/except, so a raise ends the whole conversion)                 *)
(* Tokens are records [kind, children, content, start, level, header].     *)
(***************************************************************************)
EXTENDS Integers, Sequences, FiniteSets, TLC

\* pc: "call" before the operation runs, "done" after it
\* arg: the arguments of the call       res: what it returned, or Raised
\* merged: the target object inject_properties mutates in place
\* out: the keys of the diagnostics printed
VARIABLES pc, arg, res, merged, out

vars == <<pc, arg, res, merged, out>>

(***************************************************************************)
(* Python values                                                           *)
(***************************************************************************)
Str(s) == [k |-> "S", v |-> s]

Lst(l) == [k |-> "L", v |-> l]

Map(m) == [k |-> "M", v |-> m]

PyInt(n) == [k |-> "I", v |-> <<n>>]

PyNone == [k |-> "N", v |-> <<>>]

PyTrue == [k |-> "T", v |-> <<>>]

Raised == [k |-> "E", v |-> <<>>]

Entry(key, val) == [key |-> key, val |-> val]

\* bool(x): the truth value Python's "if x:" uses
Truthy(x) ==
    CASE x.k \in {"S", "L", "M"} -> Len(x.v) > 0
      [] x.k = "I" -> x.v[1] # 0
      [] x.k = "T" -> TRUE
      [] OTHER -> FALSE

\* hash(x) succeeds: x can be a dict key (list and dict cannot)
Hashable(x) == x.k \in {"S", "I", "N", "T"}

\* a == b for scalars: True and 1 are equal (and hash alike), as bool is an int
PyEq(a, b) == a = b \/ {a, b} = {PyTrue, PyInt(1)}

\* key in d
HasKey(d, key) == \E i \in 1..Len(d.v) : PyEq(d.v[i].key, key)

\* d[key], for a key that is in d
Get(d, key) == d.v[CHOOSE i \in 1..Len(d.v) : PyEq(d.v[i].key, key)].val

\* d[key] = val: replaces the value in place (the entry keeps its first key
\* and position), or appends a new entry
Put(d, key, val) ==
    IF HasKey(d, key)
    THEN Map([i \in 1..Len(d.v) |->
                IF PyEq(d.v[i].key, key) THEN Entry(d.v[i].key, val) ELSE d.v[i]])
    ELSE Map(Append(d.v, Entry(key, val)))

(***************************************************************************)
(* Text: str.strip, str.lower and the three regular expressions of         *)
(* eval_text_syntax, over sequences of characters                          *)
(***************************************************************************)
\* the characters of the model's texts that \w does not match
NonWordChars == {" ", ":", "(", ")", "#", "<", ">", "/", "&", ";", "'", "\""}

IsWord(c) == c \notin NonWordChars

IsSpace(c) == c = " "

RECURSIVE lstrip(_)
lstrip(s) == IF s # <<>> /\ IsSpace(Head(s)) THEN lstrip(Tail(s)) ELSE s

RECURSIVE rstrip(_)
rstrip(s) ==
    IF s # <<>> /\ IsSpace(s[Len(s)]) THEN rstrip(SubSeq(s, 1, Len(s) - 1)) ELSE s

strip(s) == rstrip(lstrip(s))

\* length of the longest prefix \w* matches
RECURSIVE WordRun(_)
WordRun(s) == IF s # <<>> /\ IsWord(Head(s)) THEN 1 + WordRun(Tail(s)) ELSE 0

\* length of the longest prefix \s* matches
RECURSIVE SpaceRun(_)
SpaceRun(s) == IF s # <<>> /\ IsSpace(Head(s)) THEN 1 + SpaceRun(Tail(s)) ELSE 0

\* type_pattern  .*\((.*)\)$ : the text ends with ")" and holds a "(" before
\* it; the first .* is greedy, so the group opens at the last such "("
TypeOpen(s) == {i \in 1..(Len(s) - 1) : s[i] = "("}

TypeMatches(s) == Len(s) >= 2 /\ s[Len(s)] = ")" /\ TypeOpen(s) # {}

TypeStart(s) == CHOOSE i \in TypeOpen(s) : \A j \in TypeOpen(s) : j <= i

TypeGroup(s) == SubSeq(s, TypeStart(s) + 1, Len(s) - 1)

\* value_pattern  ^\w+\s*:(.+)(\(.*\))*$ : (.+) is greedy and the optional
\* group may match zero times, so group 1 is everything after the colon
ValueColon(s) == WordRun(s) + SpaceRun(SubSeq(s, WordRun(s) + 1, Len(s))) + 1

ValueMatches(s) ==
    /\ WordRun(s) > 0
    /\ ValueColon(s) < Len(s)
    /\ s[ValueColon(s)] = ":"

ValueGroup(s) == SubSeq(s, ValueColon(s) + 1, Len(s))

eval_text_syntax(text) ==
    IF text.k # "S"
    THEN [key |-> Raised, value |-> Raised, type_name |-> Raised]
    ELSE LET s == strip(text.v)
             type_name == IF TypeMatches(s) THEN Str(strip(TypeGroup(s))) ELSE PyNone
         IN  IF WordRun(s) = 0
             THEN [key |-> Str(s), value |-> PyNone, type_name |-> type_name]
             ELSE [key |-> Str(SubSeq(s, 1, WordRun(s))),
                   value |-> IF ValueMatches(s)
                             THEN Str(strip(ValueGroup(s))) ELSE PyNone,
                   type_name |-> type_name]

(***************************************************************************)
(* inject_properties(source, target): merges source into target in place.  *)
(* The operator yields [t, err, out]: the target object as the call leaves *)
(* it, whether the call raised, and the keys of the diagnostics it printed.*)
(* isinstance(x, collections.Mapping) is modelled for the interpreters     *)
(* that still provide that alias (Python < 3.10), which the module was     *)
(* written for.                                                            *)
(***************************************************************************)
UpperToLower == [c \in {"N", "A", "M", "E"} |->
                    CASE c = "N" -> "n" [] c = "A" -> "a" [] c = "M" -> "m" [] c = "E" -> "e"]

\* str.lower over the characters of the model's texts
lower(s) == [i \in 1..Len(s) |->
                IF s[i] \in DOMAIN UpperToLower THEN UpperToLower[s[i]] ELSE s[i]]

\* str(source_key).lower() == 'name': str() of None, True or an int is never "name"
IsNameKey(key) == key.k = "S" /\ lower(key.v) = <<"n", "a", "m", "e">>

\* isinstance(x, (str, int, float)); bool is a subclass of int
IsStrOrNumber(x) == x.k \in {"S", "I", "T"}

IsSentinelWholeText(x) == x.k = "S" /\ x.v = <<"#">>

\* isinstance(target_value, str) and target_value[:1] == '#'
IsSentinel(x) == x.k = "S" /\ x.v # <<>> /\ Head(x.v) = "#"

\* the integer a list index stands for: True indexes as 1
IndexOf(key) == IF key.k = "T" THEN 1 ELSE key.v[1]

IsIndex(t, key) == key.k \in {"I", "T"} /\ IndexOf(key) >= 0 /\ IndexOf(key) < Len(t.v)

\* source_key in target: a dict looks the key up, a list compares elements;
\* a str takes a str key only, and any other target raises TypeError
Contains(t, key) ==
    CASE t.k = "M" -> HasKey(t, key)
      [] t.k = "L" -> \E i \in 1..Len(t.v) : PyEq(t.v[i], key)
      [] OTHER -> FALSE

ContainsRaises(t, key) == ~ (t.k \in {"M", "L"} \/ (t.k = "S" /\ key.k = "S"))

\* target[source_key]: Raised where Python raises TypeError or IndexError
GetItem(t, key) ==
    CASE t.k = "M" -> Get(t, key)
      [] t.k = "L" /\ IsIndex(t, key) -> t.v[IndexOf(key) + 1]
      [] OTHER -> Raised

\* target[source_key] = val: Raised where Python raises
SetItem(t, key, val) ==
    CASE t.k = "M" -> Put(t, key, val)
      [] t.k = "L" /\ IsIndex(t, key) -> Lst([t.v EXCEPT ![IndexOf(key) + 1] = val])
      [] OTHER -> Raised

Shape(x) == IF x.k = "M" THEN "dict" ELSE IF x.k = "L" THEN "list" ELSE "scalar"

Merged(t) == [t |-> t, err |-> FALSE, out |-> <<>>]

Failed(t) == [t |-> t, err |-> TRUE, out |-> <<>>]

RECURSIVE inject_properties(_, _)

\* one pass of the loop body (lines 435-489) for the item (key, sval)
inject_item(key, sval, target) ==
    IF IsNameKey(key) THEN Merged(target)
    ELSE IF ContainsRaises(target, key) THEN Failed(target)
    ELSE IF ~ Contains(target, key)
    THEN IF SetItem(target, key, sval) = Raised THEN Failed(target)
         ELSE Merged(SetItem(target, key, sval))
    ELSE IF GetItem(target, key) = Raised THEN Failed(target)
    ELSE LET tval == GetItem(target, key)
             s == Shape(sval)
             t == Shape(tval)
         IN  IF IsSentinel(tval) THEN Merged(target)
             ELSE CASE s = "scalar" /\ t = "scalar" ->
                         IF ~ PyEq(sval, tval)
                         THEN Merged(SetItem(target, key, Lst(<<sval, tval>>)))
                         ELSE Merged(target)
                    \* target_value.append on a dict: AttributeError
                    [] s = "scalar" /\ t = "dict" -> Failed(target)
                    \* target_value[source_value] = True on a list
                    [] s = "scalar" /\ t = "list" ->
                         IF IsIndex(tval, sval)
                         THEN Merged(SetItem(target, key, SetItem(tval, sval, PyTrue)))
                         ELSE Failed(target)
                    [] s = "dict" /\ t = "scalar" ->
                         Merged(SetItem(target, key, Put(sval, tval, PyTrue)))
                    [] s = "dict" /\ t = "dict" ->
                         LET r == inject_properties(sval, tval)
                         IN  [t |-> SetItem(target, key, r.t), err |-> r.err, out |-> r.out]
                    [] s = "dict" /\ t = "list" ->
                         [t |-> target, err |-> FALSE, out |-> <<key>>]
                    [] s = "list" /\ t = "scalar" ->
                         Merged(SetItem(target, key, Lst(Append(sval.v, tval))))
                    [] s = "list" /\ t = "dict" ->
                         [t |-> target, err |-> FALSE, out |-> <<key>>]
                    [] s = "list" /\ t = "list" ->
                         Merged(SetItem(target, key, Lst(tval.v \o sval.v)))

\* for source_key, source_value in source.items(), from the i-th item on
RECURSIVE inject_items(_, _, _)
inject_items(source, target, i) ==
    IF i > Len(source.v) THEN Merged(target)
    ELSE LET step == inject_item(source.v[i].key, source.v[i].val, target)
         IN  IF step.err THEN step
             ELSE LET rest == inject_items(source, step.t, i + 1)
                  IN  [t |-> rest.t, err |-> rest.err, out |-> step.out \o rest.out]

inject_properties(source, target) ==
    IF source.k = "L" /\ target.k = "L" THEN Merged(Lst(target.v \o source.v))
    \* target = [source, target] rebinds the local name only
    ELSE IF IsStrOrNumber(source) /\ IsStrOrNumber(target) THEN Merged(target)
    ELSE IF IsStrOrNumber(source) /\ target.k = "L"
    THEN Merged(Lst(Append(target.v, source)))
    \* source.items() on anything but a dict: AttributeError
    ELSE IF source.k # "M" THEN Failed(target)
    ELSE inject_items(source, target, 1)

(***************************************************************************)
(* Tokens of the parsed document and the render_* methods                  *)
(***************************************************************************)
\* token.start of a list that declares no start number (None)
NoStart == -1

Tok(kind, children) ==
    [kind |-> kind, children |-> children, content |-> <<>>,
     start |-> NoStart, level |-> 0, header |-> <<>>]

RawText(content) == [Tok("RawText", <<>>) EXCEPT !.content = content]

Strikethrough(children) == Tok("Strikethrough", children)

Strong(children) == Tok("Strong", children)

Image(src) == [Tok("Image", <<>>) EXCEPT !.content = src]

Paragraph(children) == Tok("Paragraph", children)

Heading(level, children) == [Tok("Heading", children) EXCEPT !.level = level]

ThematicBreak == Tok("ThematicBreak", <<>>)

ListItem(children) == Tok("ListItem", children)

ListTok(start, children) == [Tok("List", children) EXCEPT !.start = start]

TableCell(children) == Tok("TableCell", children)

TableRow(children) == Tok("TableRow", children)

\* header: <<>> when the token has no header attribute, else <<row>>
Table(header, children) == [Tok("Table", children) EXCEPT !.header = header]

Document(children) == Tok("Document", children)

RECURSIVE Flatten(_)
Flatten(ss) == IF ss = <<>> THEN <<>> ELSE Head(ss) \o Flatten(Tail(ss))

\* html.escape of one character (quote=True), then '&#x27;' put back to "'"
EscapeChar(c) ==
    CASE c = "<" -> <<"&", "l", "t", ";">>
      [] c = ">" -> <<"&", "g", "t", ";">>
      [] c = "\"" -> <<"&", "q", "u", "o", "t", ";">>
      [] OTHER -> <<c>>

\* html.escape(html.unescape(raw)).replace('&#x27;', "'"), for the texts of
\* the model, which hold no "&": html.unescape leaves them as they are
escape_mson(raw) == Flatten([i \in 1..Len(raw) |-> EscapeChar(raw[i])])

render_raw_text(token) == Str(escape_mson(token.content))

render_strikethrough(token) == PyNone

render_thematic_break(token) == Str(<<"<", "h", "r", " ", "/", ">">>)

\* self.mson_object / self.actual_nested_obj: the list set up by __init__
\* and never rebound
actual_nested_obj == Lst(<<>>)

\* add_properties(list, key, value): Raised where a statement raises.
\* type(list[key]) == 'list' compares a type with a str, so it never holds
\* and the stored value is always wrapped.
add_properties(list, key, value) ==
    LET stored == IF ContainsRaises(list, key) THEN Raised
                  ELSE IF ~ Contains(list, key) THEN SetItem(list, key, value)
                  ELSE list
        wrapped == IF stored = Raised \/ GetItem(stored, key) = Raised THEN Raised
                   ELSE SetItem(stored, key, Lst(<<GetItem(stored, key)>>))
    IN  IF wrapped = Raised THEN Raised
        ELSE SetItem(wrapped, key, Lst(Append(GetItem(wrapped, key).v, value)))

render_image(token) ==
    LET image == Map(<<Entry(Str(<<"s", "r", "c">>), Str(token.content)),
                       Entry(Str(<<"t", "i", "t", "l", "e">>), Str(<<>>))>>)
    IN  IF add_properties(actual_nested_obj, Str(<<"i", "m", "g">>), image) = Raised
        THEN Raised
        ELSE image

RECURSIVE render(_)

\* list(map(self.render, token.children)); Raised when a child raises
RenderAll(children) ==
    LET rendered == [i \in 1..Len(children) |-> render(children[i])]
    IN  IF \E i \in 1..Len(children) : rendered[i] = Raised THEN Raised
        ELSE Lst(rendered)

render_inner(token) ==
    LET rendered == RenderAll(token.children)
    IN  IF rendered = Raised THEN Raised
        ELSE IF Len(rendered.v) = 1 THEN rendered.v[1]
        ELSE rendered

render_heading(token) ==
    LET data == render_inner(token)
    IN  IF data = Raised THEN Raised
        ELSE Map(<<Entry(Str(<<"l", "e", "v", "e", "l">>), PyInt(token.level)),
                   Entry(Str(<<"d", "a", "t", "a">>), data)>>)

render_paragraph(token) ==
    LET rendered == render_inner(token)
    IN  IF rendered.k # "L" THEN rendered
        \* rendered[0] of an empty list: IndexError
        ELSE IF rendered.v = <<>> THEN Raised
        ELSE LET d == eval_text_syntax(rendered.v[1])
             IN  IF d.key = Raised THEN Raised
                 ELSE IF Truthy(d.key)
                 THEN IF Truthy(d.value)
                      THEN Map(<<Entry(d.key, Lst(<<d.value>> \o Tail(rendered.v)))>>)
                      ELSE Map(<<Entry(d.key, Lst(Tail(rendered.v)))>>)
                 ELSE rendered

\* the state of render_list's loops
ListState(inner_array, inner_hash, we_found_an_item, err) ==
    [inner_array |-> inner_array, inner_hash |-> inner_hash,
     we_found_an_item |-> we_found_an_item, err |-> err]

\* inner_array.insert(start, x): past the end it appends
ListInsert(l, start, x) ==
    IF start >= Len(l) THEN Append(l, x)
    ELSE SubSeq(l, 1, start) \o <<x>> \o SubSeq(l, start + 1, Len(l))

\* lines 199-200: for child in token.children, from the i-th child on
RECURSIVE list_insert_children(_, _, _, _)
list_insert_children(children, start, st, i) ==
    IF i > Len(children) \/ st.err THEN st
    ELSE LET child_data == render(children[i])
         IN  IF child_data = Raised THEN [st EXCEPT !.err = TRUE]
             ELSE list_insert_children(children, start,
                    [st EXCEPT !.inner_array = ListInsert(@, start, child_data)], i + 1)

\* lines 207-215: for key, val in child_data.items(), from the i-th entry on
RECURSIVE list_child_items(_, _, _)
list_child_items(child_data, st, i) ==
    IF i > Len(child_data.v) \/ st.err THEN st
    ELSE LET key == child_data.v[i].key
             val == child_data.v[i].val
             next ==
               IF key = Str(<<"i", "t", "e", "m">>)
               THEN [st EXCEPT !.inner_array = Append(@, val), !.we_found_an_item = TRUE]
               ELSE IF HasKey(st.inner_hash, key)
               THEN LET r == inject_properties(val, Get(st.inner_hash, key))
                    IN  [st EXCEPT !.inner_hash = Put(@, key, r.t), !.err = r.err]
               ELSE [st EXCEPT !.inner_hash = Put(@, key, val)]
         IN  list_child_items(child_data, next, i + 1)

\* lines 204-217: for child in token.children, from the i-th child on
RECURSIVE list_merge_children(_, _, _)
list_merge_children(children, st, i) ==
    IF i > Len(children) \/ st.err THEN st
    ELSE LET child_data == render(children[i])
         IN  IF child_data = Raised THEN [st EXCEPT !.err = TRUE]
             ELSE IF child_data.k = "M"
             THEN list_merge_children(children, list_child_items(child_data, st, 1), i + 1)
             ELSE list_merge_children(children,
                    [st EXCEPT !.inner_array = Append(@, child_data)], i + 1)

\* lines 220-224: every entry of inner_hash appended as a one-entry dict
HashAsItems(inner_hash) ==
    [i \in 1..Len(inner_hash.v) |-> Map(<<inner_hash.v[i]>>)]

render_list(token) ==
    LET start == IF token.start # NoStart
                 THEN (IF token.start # 1 THEN token.start ELSE 0)
                 ELSE NoStart
        empty == ListState(<<>>, Map(<<>>), FALSE, FALSE)
        st == IF start # NoStart
              THEN list_insert_children(token.children, start, empty, 1)
              ELSE list_merge_children(token.children, empty, 1)
    IN  IF st.err THEN Raised
        ELSE IF st.inner_array # <<>> /\ st.inner_hash.v # <<>>
        THEN Lst(st.inner_array \o HashAsItems(st.inner_hash))
        ELSE IF Len(st.inner_array) = 1 /\ ~ st.we_found_an_item
        THEN st.inner_array[1]
        ELSE IF st.inner_hash.v # <<>> THEN st.inner_hash
        ELSE Lst(st.inner_array)

\* transformMSON(old_inner), on a sequence of rendered values
transformMSON(old_inner) ==
    [i \in 1..Len(old_inner) |->
        IF old_inner[i].k = "S"
        THEN LET d == eval_text_syntax(old_inner[i])
             IN  IF Truthy(d.value) THEN Map(<<Entry(d.key, d.value)>>) ELSE d.key
        ELSE old_inner[i]]

\* len(inner) of the list or the dict that inner is bound to
PyLen(x) == Len(x.v)

\* one of the four statements of lines 300-307:
\* if <kind test> and len(inner) > 1: inner = {inner[a]: inner[b]}
\* (a list or a dict as the key raises TypeError: unhashable)
Pairing(inner, test, a, b) ==
    IF inner = Raised \/ ~ (test /\ PyLen(inner) > 1) THEN inner
    ELSE IF Hashable(inner.v[a]) THEN Map(<<Entry(inner.v[a], inner.v[b])>>)
    ELSE Raised

\* the four statements in the order opposite to the source's: both
\* first-child tests before both last-child tests
PairingFirstChildFirst(inner, first, last) ==
    Pairing(Pairing(Pairing(Pairing(inner,
        first = "Paragraph", 1, 2),
        first = "List", 1, 2),
        last = "Paragraph", 2, 1),
        last = "List", 2, 1)

\* lines 299-307; first, last: the class names of children[0], children[-1]
PairChildren(inner, first, last) ==
    Pairing(Pairing(Pairing(Pairing(inner,
        first = "Paragraph", 1, 2),
        last = "Paragraph", 2, 1),
        first = "List", 1, 2),
        last = "List", 2, 1)

render_list_item(token) ==
    IF Len(token.children) = 0 THEN Lst(<<>>)
    ELSE LET rendered == RenderAll(token.children)
         IN  IF rendered = Raised THEN Raised
             ELSE LET inner == transformMSON(rendered.v)
                  IN  IF Len(inner) = 1 THEN inner[1]
                      ELSE PairChildren(Lst(inner),
                                        token.children[1].kind,
                                        token.children[Len(token.children)].kind)

\* x[i] with a 0-based int i: Raised where Python raises
Index(x, i) ==
    CASE x.k = "S" /\ i < Len(x.v) -> Str(<<x.v[i + 1]>>)
      [] x.k = "L" /\ i < Len(x.v) -> x.v[i + 1]
      [] x.k = "M" /\ HasKey(x, PyInt(i)) -> Get(x, PyInt(i))
      [] OTHER -> Raised

render_table_cell(token) == render_inner(token)

render_table_row(token) ==
    LET inner == [i \in 1..Len(token.children) |-> render_table_cell(token.children[i])]
    IN  IF \E i \in 1..Len(inner) : inner[i] = Raised THEN Raised ELSE Lst(inner)

\* lines 335-338 and 344-347: obj = {} filled for col in range(from, len(head)),
\* from the column col on
RECURSIVE RowObject(_, _, _, _)
RowObject(head, row, obj, col) ==
    IF obj = Raised \/ col >= PyLen(head) THEN obj
    ELSE IF Index(row, col) = Raised \/ Index(head, col) = Raised
            \/ ~ Hashable(Index(head, col))
    THEN Raised
    ELSE RowObject(head, row, Put(obj, Index(head, col), Index(row, col)), col + 1)

\* lines 334-339: all_inner = [] filled for row in range(1, len(rows)), from r on
RECURSIVE TableArray(_, _, _)
TableArray(rows, all_inner, r) ==
    IF all_inner = Raised \/ r > Len(rows) THEN all_inner
    ELSE LET obj == RowObject(rows[1], rows[r], Map(<<>>), 0)
         IN  TableArray(rows, IF obj = Raised THEN Raised
                              ELSE Lst(Append(all_inner.v, obj)), r + 1)

\* lines 342-348: all_inner = {} filled for row in range(1, len(rows)), from r on
RECURSIVE TableHash(_, _, _)
TableHash(rows, all_inner, r) ==
    IF all_inner = Raised \/ r > Len(rows) THEN all_inner
    ELSE LET obj == RowObject(rows[1], rows[r], Map(<<>>), 1)
             name == Index(rows[r], 0)
         IN  TableHash(rows, IF obj = Raised \/ name = Raised \/ ~ Hashable(name)
                             THEN Raised
                             ELSE Put(all_inner, name, obj), r + 1)

render_table(token) ==
    LET head_inner == IF token.header # <<>>
                      THEN <<render_table_row(token.header[1])>> ELSE <<>>
        body_inner == render_inner(token)
    IN  IF (head_inner # <<>> /\ head_inner[1] = Raised) \/ body_inner = Raised
        THEN Raised
        \* head_inner + body_inner: list + anything but a list is a TypeError
        ELSE IF body_inner.k # "L" THEN Raised
        ELSE LET all_inner_values == head_inner \o body_inner.v
             IN  \* all_inner is bound only under the three ifs: without them
                 \* "return all_inner" raises UnboundLocalError
                 IF all_inner_values = <<>> \/ ~ Truthy(all_inner_values[1])
                 THEN Raised
                 ELSE IF Index(all_inner_values[1], 0) = Raised THEN Raised
                 ELSE IF Truthy(Index(all_inner_values[1], 0))
                 THEN TableArray(all_inner_values, Lst(<<>>), 2)
                 ELSE TableHash(all_inner_values, Map(<<>>), 2)

render_document(token) ==
    LET inner == RenderAll(token.children)
    IN  IF inner = Raised THEN Raised
        ELSE IF Len(inner.v) = 1 THEN inner.v[1]
        ELSE inner

\* BaseRenderer.render: dispatch on the token's class
render(token) ==
    CASE token.kind = "RawText" -> render_raw_text(token)
      [] token.kind = "Strikethrough" -> render_strikethrough(token)
      [] token.kind = "Strong" -> render_inner(token)
      [] token.kind = "Image" -> render_image(token)
      [] token.kind = "Paragraph" -> render_paragraph(token)
      [] token.kind = "Heading" -> render_heading(token)
      [] token.kind = "ThematicBreak" -> render_thematic_break(token)
      [] token.kind = "ListItem" -> render_list_item(token)
      [] token.kind = "List" -> render_list(token)
      [] token.kind = "TableCell" -> render_table_cell(token)
      [] token.kind = "TableRow" -> render_table_row(token)
      [] token.kind = "Table" -> render_table(token)
      [] token.kind = "Document" -> render_document(token)

(***************************************************************************)
(* Specification SpecMerge: inject_properties on every pair of small       *)
(* values                                                                  *)
(***************************************************************************)
MaxEntries == 2

KeyX == Str(<<"x">>)

KeyY == Str(<<"y">>)

KeyName == Str(<<"N", "a", "m", "e">>)

MergeKeys == {KeyX, KeyY, KeyName}

MergeLeaves ==
    { Str(<<"1">>), Str(<<"#", "l">>),
      Lst(<<Str(<<"2">>)>>),
      Map(<<Entry(KeyX, Str(<<"2">>))>>) }

\* the dicts of at most MaxEntries entries with distinct keys
MergeMaps ==
    { Map(m) : m \in
        { e \in UNION {[1..n -> [key : MergeKeys, val : MergeLeaves]] : n \in 0..MaxEntries} :
            \A i, j \in 1..Len(e) : i # j => e[i].key # e[j].key } }

MergeValues == MergeLeaves \cup MergeMaps

InitMerge ==
    /\ pc = "call"
    /\ arg \in [source : MergeValues, target : MergeValues]
    /\ res = PyNone
    /\ merged = arg.target
    /\ out = <<>>

InjectProperties ==
    /\ pc = "call"
    /\ LET r == inject_properties(arg.source, merged)
       IN  /\ res' = (IF r.err THEN Raised ELSE PyNone)
           /\ merged' = r.t
           /\ out' = r.out
    /\ pc' = "done"
    /\ UNCHANGED arg

NextMerge == InjectProperties

SpecMerge == InitMerge /\ [][NextMerge]_vars

\* a Scalar beginning with "#"
HashScalar(x) == x.k = "S" /\ Len(x.v) >= 1 /\ x.v[1] = "#"

RECURSIVE TableValue(_, _)

RECURSIVE TableEntries(_, _, _)
TableEntries(s, t, i) ==
    IF i > Len(s.v) THEN t
    ELSE LET key == s.v[i].key
             sv == s.v[i].val
             next == IF key.k = "S" /\ lower(key.v) = <<"n", "a", "m", "e">> THEN t
                     ELSE IF ~ HasKey(t, key) THEN Put(t, key, sv)
                     ELSE IF HashScalar(Get(t, key)) THEN t
                     ELSE Put(t, key, TableValue(sv, Get(t, key)))
         IN  TableEntries(s, next, i + 1)

TableValue(s, t) ==
    CASE s.k = "L" /\ t.k = "L" -> Lst(t.v \o s.v)
      [] s.k = "S" /\ t.k = "S" -> IF s = t THEN t ELSE Lst(<<s, t>>)
      [] s.k = "S" /\ t.k = "L" -> Lst(Append(t.v, s))
      [] s.k = "S" /\ t.k = "M" -> t
      [] s.k = "M" /\ t.k = "S" -> Put(s, t, PyTrue)
      [] s.k = "M" /\ t.k = "M" -> TableEntries(s, t, 1)
      [] s.k = "M" /\ t.k = "L" -> t
      [] s.k = "L" /\ t.k = "S" -> Lst(Append(s.v, t))
      [] s.k = "L" /\ t.k = "M" -> t

\* C4: merging a Mapping into a Mapping leaves, under every key present in
\* both, the entry the 3x3 shape table prescribes (Scalar into Sequence
\* appends, Scalar into Mapping keeps the target entry), and the merge goes
\* on with the remaining keys instead of stopping.
C4_MergeFollowsTable ==
    (pc = "done" /\ arg.source.k = "M" /\ arg.target.k = "M") =>
        /\ res # Raised
        /\ \A i \in 1..Len(arg.source.v) :
              LET key == arg.source.v[i].key
              IN  HasKey(arg.target, key) =>
                    Get(merged, key) = Get(TableEntries(arg.source, arg.target, 1), key)

(***************************************************************************)
(* Specification SpecItem: render_list_item on every list item of up to    *)
(* MaxChildren children                                                    *)
(***************************************************************************)
MaxChildren == 3

TextParagraph(text) == Paragraph(<<RawText(text)>>)

TextItem(text) == ListItem(<<TextParagraph(text)>>)

\* renders to the list ["x", "y"]
ListTwo == ListTok(NoStart, <<TextItem(<<"x">>), TextItem(<<"y">>)>>)

\* a paragraph "p" and "q" (bare keys), a paragraph "a:1" (a {key: value}
\* dict), a paragraph of struck text (None), a one-item list (the str "x"),
\* a two-item list (a list) and a thematic break (the str "<hr />")
ItemBlocks ==
    { TextParagraph(<<"p">>), TextParagraph(<<"q">>), TextParagraph(<<"a", ":", "1">>),
      Paragraph(<<Strikethrough(<<RawText(<<"s">>)>>)>>),
      ListTok(NoStart, <<TextItem(<<"x">>)>>),
      ListTwo,
      ThematicBreak }

InitItem ==
    /\ pc = "call"
    /\ arg \in {ListItem(cs) : cs \in UNION {[1..n -> ItemBlocks] : n \in 0..MaxChildren}}
    /\ res = PyNone
    /\ merged = PyNone
    /\ out = <<>>

\* renderer.render(token) of a ListItem token: dispatched to render_list_item
RenderListItem ==
    /\ pc = "call"
    /\ res' = render(arg)
    /\ pc' = "done"
    /\ UNCHANGED <<arg, merged, out>>

NextItem == RenderListItem

SpecItem == InitItem /\ [][NextItem]_vars

\* the item's converted child values V, after the text re-parse of step 1
ItemValues == transformMSON(RenderAll(arg.children).v)

FirstKind == arg.children[1].kind

LastKind == arg.children[Len(arg.children)].kind

PairOf(key, val) == Map(<<Entry(key, val)>>)

\* C9 as stated: with two children, a first child that is a Paragraph or a
\* List gives {V[0]: V[1]} whatever the last child is, and {V[1]: V[0]} is
\* produced only when the first child is neither and the last child is one
\* (for the items whose assembly returns a value).
C9_FirstChildRuleFirst ==
    (pc = "done" /\ Len(arg.children) = 2 /\ res # Raised) =>
        /\ FirstKind \in {"Paragraph", "List"} =>
              res = PairOf(ItemValues[1], ItemValues[2])
        /\ (res = PairOf(ItemValues[2], ItemValues[1]) /\ ItemValues[1] # ItemValues[2]) =>
              (FirstKind \notin {"Paragraph", "List"} /\ LastKind \in {"Paragraph", "List"})

\* which child the source's order makes the key: both Paragraph tests come
\* before both List tests, and within a kind the first child before the last
PairKey ==
    IF FirstKind = "Paragraph" THEN 1
    ELSE IF LastKind = "Paragraph" THEN 2
    ELSE IF FirstKind = "List" THEN 1
    ELSE IF LastKind = "List" THEN 2
    ELSE 0

\* C9 (amended): with two children the key is V[0] if the first child is a
\* Paragraph, else V[1] if the last child is a Paragraph, else V[0] if the
\* first child is a List, else V[1] if the last child is a List; the item is
\* the one-entry Mapping of the key to the other value when the key is a
\* Scalar, the assembly raises when the key is a Sequence or a Mapping, and
\* with no Paragraph or List at either end the item is the Sequence [V[0], V[1]].
C9_ParagraphRulesFirst ==
    (pc = "done" /\ Len(arg.children) = 2) =>
        res = IF PairKey = 0 THEN Lst(ItemValues)
              ELSE IF ItemValues[PairKey].k \in {"L", "M"} THEN Raised
              ELSE PairOf(ItemValues[PairKey], ItemValues[3 - PairKey])

\* a List first and a Paragraph last: the Paragraph's value became the key
C9_Witness ==
    /\ pc = "done"
    /\ Len(arg.children) = 2
    /\ FirstKind = "List"
    /\ LastKind = "Paragraph"
    /\ ItemValues[1] # ItemValues[2]
    /\ res = PairOf(ItemValues[2], ItemValues[1])

\* v is an element of the Sequence r, or the key or the value of the
\* single-entry Mapping r
KeptIn(v, r) ==
    \/ r.k = "L" /\ \E i \in 1..Len(r.v) : r.v[i] = v
    \/ r.k = "M" /\ Len(r.v) = 1 /\ (r.v[1].key = v \/ r.v[1].val = v)

\* C6: a list item never drops a child value: each of the n converted values
\* is in the result (the result itself when n = 1, else an element of the
\* Sequence or the key or value of the single-entry Mapping), and for n > 2
\* the result is the whole Sequence V[0..n).
C6_NoChildDropped ==
    (pc = "done" /\ res # Raised /\ Len(arg.children) >= 1) =>
        /\ \A i \in 1..Len(arg.children) :
              \/ Len(arg.children) = 1 /\ res = ItemValues[1]
              \/ KeptIn(ItemValues[i], res)
        /\ Len(arg.children) > 2 => res = Lst(ItemValues)

(***************************************************************************)
(* Specification SpecList: render_list on every list of up to MaxItems     *)
(* items, without a start number and with the start numbers 0..MaxStart    *)
(***************************************************************************)
MaxItems == 3

MaxStart == 2

\* items "a:1", "a:2", "b:3" ({key: value} dicts), "p" (a bare str),
\* "item:1" (an explicit item), and "a" with a nested list ({"a": [...]})
ListItems ==
    { TextItem(<<"a", ":", "1">>), TextItem(<<"a", ":", "2">>),
      TextItem(<<"b", ":", "3">>), TextItem(<<"p">>),
      TextItem(<<"i", "t", "e", "m", ":", "1">>),
      ListItem(<<TextParagraph(<<"a">>), ListTwo>>) }

InitList ==
    /\ pc = "call"
    /\ arg \in {ListTok(st, its) :
                  st \in {NoStart} \cup 0..MaxStart,
                  its \in UNION {[1..n -> ListItems] : n \in 0..MaxItems}}
    /\ res = PyNone
    /\ merged = PyNone
    /\ out = <<>>

\* renderer.render(token) of a List token: dispatched to render_list
RenderList ==
    /\ pc = "call"
    /\ res' = render(arg)
    /\ pc' = "done"
    /\ UNCHANGED <<arg, merged, out>>

NextList == RenderList

SpecList == InitList /\ [][NextList]_vars

\* the converted value of the i-th item of the list
ItemValue(i) == render(arg.children[i])

\* the item resolves to a single-entry Mapping with a Scalar value that is
\* no explicit "item" entry
ScalarProperty(v) ==
    /\ v.k = "M"
    /\ Len(v.v) = 1
    /\ v.v[1].val.k = "S"
    /\ v.v[1].key # Str(<<"i", "t", "e", "m">>)

\* the items that give a value to the key
ItemsOf(key) == {i \in 1..Len(arg.children) : ItemValue(i).v[1].key = key}

\* C1: in an unordered list whose items are all single-entry Mappings with
\* Scalar values, a key two items give different values to holds both values
\* as a two-element Sequence, and a key one item gives a value to holds that
\* value: no item's value is lost.
C1_CollidingScalarsKept ==
    (/\ pc = "done"
     /\ arg.start = NoStart
     /\ Len(arg.children) >= 1
     /\ \A i \in 1..Len(arg.children) : ScalarProperty(ItemValue(i))) =>
        /\ res.k = "M"
        /\ \A i \in 1..Len(arg.children) :
              LET key == ItemValue(i).v[1].key
                  val == ItemValue(i).v[1].val
              IN  /\ HasKey(res, key)
                  /\ ItemsOf(key) = {i} => Get(res, key) = val
                  /\ \A j \in ItemsOf(key) :
                        (ItemsOf(key) = {i, j} /\ ItemValue(j).v[1].val # val) =>
                            Get(res, key) \in
                                { Lst(<<val, ItemValue(j).v[1].val>>),
                                  Lst(<<ItemValue(j).v[1].val, val>>) }

\* C10: a list that declares a start number gives its items' values, each
\* once and in document order: the i-th element of the output is the value
\* of the i-th item (the value of the only item of a one-item list, which
\* the renderer returns bare, is taken as that one-element output).
C10_StartKeepsOrder ==
    (pc = "done" /\ arg.start # NoStart) =>
        \/ res = Lst([i \in 1..Len(arg.children) |-> ItemValue(i)])
        \/ Len(arg.children) = 1 /\ res = ItemValue(1)

(***************************************************************************)
(* Specification SpecTable: render_table on every table of TableCols       *)
(* columns with up to MaxRows body rows, with and without a header row     *)
(***************************************************************************)
MaxRows == 2

TableCols == 2

\* an empty cell and cells with the texts "n", "s" and "ab"
Cells ==
    { TableCell(<<>>), TableCell(<<RawText(<<"n">>)>>),
      TableCell(<<RawText(<<"s">>)>>), TableCell(<<RawText(<<"a", "b">>)>>) }

Rows == {TableRow(cs) : cs \in [1..TableCols -> Cells]}

InitTable ==
    /\ pc = "call"
    /\ arg \in {Table(h, rs) :
                  h \in {<<>>} \cup {<<r>> : r \in Rows},
                  rs \in UNION {[1..n -> Rows] : n \in 0..MaxRows}}
    /\ res = PyNone
    /\ merged = PyNone
    /\ out = <<>>

\* renderer.render(token) of a Table token: dispatched to render_table
RenderTable ==
    /\ pc = "call"
    /\ res' = render(arg)
    /\ pc' = "done"
    /\ UNCHANGED <<arg, merged, out>>

NextTable == RenderTable

SpecTable == InitTable /\ [][NextTable]_vars

\* the value of cell c of the header row, and of body row r
HeadCell(c) == render(arg.header[1].children[c])

BodyCell(r, c) == render(arg.children[r].children[c])

\* the Mapping zipping the header cells from..TableCols with those of row r
RECURSIVE Zip(_, _, _)
Zip(r, obj, c) ==
    IF c > TableCols THEN obj ELSE Zip(r, Put(obj, HeadCell(c), BodyCell(r, c)), c + 1)

\* the header cells used as keys are texts, and so are the first cells of
\* the body rows where they name the rows, no two rows with the same name
TableWellFormed ==
    /\ arg.header # <<>>
    /\ \A c \in 2..TableCols : HeadCell(c).k = "S"
    /\ ~ Truthy(HeadCell(1)) =>
          /\ \A r \in 1..Len(arg.children) : BodyCell(r, 1).k = "S"
          /\ \A r, q \in 1..Len(arg.children) :
                BodyCell(r, 1) = BodyCell(q, 1) => r = q

\* C2: a table with a header row and k body rows, k >= 0, gives one
\* row-object per body row, in row order: a Sequence of the k Mappings
\* zipping the header cells with the row's cells when the top-left cell is
\* not empty, and else a Mapping of k entries from each row's first cell to
\* the Mapping zipping header cells 1.. with the row's cells 1.. .
C2_OneObjectPerRow ==
    (pc = "done" /\ TableWellFormed) =>
        res = IF Truthy(HeadCell(1))
              THEN Lst([r \in 1..Len(arg.children) |-> Zip(r, Map(<<>>), 1)])
              ELSE Map([r \in 1..Len(arg.children) |->
                          Entry(BodyCell(r, 1), Zip(r, Map(<<>>), 2))])

(***************************************************************************)
(* Specification Spec: render_document, the whole conversion, on every     *)
(* document of up to MaxBlocks blocks                                      *)
(***************************************************************************)
MaxBlocks == 2

MaxDocItems == 2

Struck == Strikethrough(<<RawText(<<"s">>)>>)

\* items that give the key "a" a Scalar ("1", "2"), a Sequence and a Mapping
CollidingItems ==
    { TextItem(<<"a", ":", "1">>), TextItem(<<"a", ":", "2">>),
      ListItem(<<TextParagraph(<<"a">>), ListTwo>>),
      ListItem(<<TextParagraph(<<"a">>),
                 ListTok(NoStart, <<TextItem(<<"b", ":", "3">>)>>)>>) }

DocLists ==
    {ListTok(st, its) :
        st \in {NoStart, 1},
        its \in UNION {[1..n -> CollidingItems] : n \in 1..MaxDocItems}}

DocParagraphs ==
    { TextParagraph(<<"a">>), TextParagraph(<<"a", ":", "1">>),
      Paragraph(<<RawText(<<"a">>), Struck>>),
      Paragraph(<<Struck>>),
      Paragraph(<<Image(<<"u">>)>>) }

DocHeadings ==
    { Heading(1, <<RawText(<<"h">>)>>), Heading(2, <<RawText(<<"h">>), Struck>>) }

NameSizeRow == TableRow(<<TableCell(<<RawText(<<"n">>)>>), TableCell(<<RawText(<<"s">>)>>)>>)

DocTables ==
    { Table(<<NameSizeRow>>, <<>>),
      Table(<<NameSizeRow>>, <<NameSizeRow>>),
      Table(<<NameSizeRow>>, <<NameSizeRow, NameSizeRow>>),
      Table(<<NameSizeRow>>,
            <<TableRow(<<TableCell(<<RawText(<<"a">>), Struck>>), TableCell(<<>>)>>),
              NameSizeRow>>),
      Table(<<>>, <<>>) }

DocBlocks ==
    DocParagraphs \cup DocHeadings \cup DocLists \cup DocTables
        \cup {ListTok(NoStart, <<ListItem(<<Paragraph(<<Struck>>), TextParagraph(<<"p">>)>>)>>)}

Init ==
    /\ pc = "call"
    /\ arg \in {Document(bs) : bs \in UNION {[1..n -> DocBlocks] : n \in 1..MaxBlocks}}
    /\ res = PyNone
    /\ merged = PyNone
    /\ out = <<>>

RenderDocument ==
    /\ pc = "call"
    /\ res' = render(arg)
    /\ pc' = "done"
    /\ UNCHANGED <<arg, merged, out>>

Next == RenderDocument

Spec == Init /\ [][Next]_vars

\* C3: the conversion of a document always ends by returning a value: no
\* step of it raises an error that aborts the conversion.
C3_ConversionNeverAborts == pc = "done" => res # Raised

\* the token, or one below it, has a Strikethrough child
RECURSIVE HasStruckChild(_)
HasStruckChild(token) ==
    \E i \in 1..Len(token.children) :
        token.children[i].kind = "Strikethrough" \/ HasStruckChild(token.children[i])

\* the value holds x as an element, a key or a value, at any depth
RECURSIVE Holds(_, _)
Holds(value, x) ==
    \/ value.k = "L" /\ \E i \in 1..Len(value.v) :
                            value.v[i] = x \/ Holds(value.v[i], x)
    \/ value.k = "M" /\ \E i \in 1..Len(value.v) :
                            \/ value.v[i].key = x \/ Holds(value.v[i].key, x)
                            \/ value.v[i].val = x \/ Holds(value.v[i].val, x)

\* C8: struck-through content is discarded: the value of a container with a
\* Strikethrough child holds neither the struck text nor the "no value"
\* marker as an element, a key or a value.
C8_StruckContentDiscarded ==
    (pc = "done" /\ res # Raised /\ HasStruckChild(arg)) =>
        ~ Holds(res, PyNone) /\ ~ Holds(res, Str(<<"s">>))

(***************************************************************************)
(* Specification SpecText: eval_text_syntax on every short text            *)
(***************************************************************************)
MaxTextLen == 6

TextAlphabet == {"a", ":", " ", "(", ")"}

Texts == UNION {[1..n -> TextAlphabet] : n \in 0..MaxTextLen}

InitText ==
    /\ pc = "call"
    /\ arg \in {Str(t) : t \in Texts}
    /\ res = PyNone
    /\ merged = PyNone
    /\ out = <<>>

EvalTextSyntax ==
    /\ pc = "call"
    /\ res' = eval_text_syntax(arg)
    /\ pc' = "done"
    /\ UNCHANGED <<arg, merged, out>>

NextText == EvalTextSyntax

SpecText == InitText /\ [][NextText]_vars

\* the text starts with a word token that a ":" follows immediately
KeyColon(s) == WordRun(s) > 0 /\ WordRun(s) < Len(s) /\ s[WordRun(s) + 1] = ":"

\* the text after the first ":" without the trailing parenthesized group
AfterColon(s) ==
    IF TypeMatches(s)
    THEN SubSeq(s, WordRun(s) + 2, TypeStart(s) - 1)
    ELSE SubSeq(s, WordRun(s) + 2, Len(s))

TextOrAbsent(s) == IF s = <<>> THEN PyNone ELSE Str(s)

\* C7: for every text that starts with a word token followed by ":", the
\* parsed value is the text after that ":" with the trailing parenthesized
\* group removed, trimmed, and typeName is the content of that group.
C7_ValueStripsTypeGroup ==
    (pc = "done" /\ KeyColon(strip(arg.v))) =>
        LET s == strip(arg.v)
        IN  /\ res.key = Str(SubSeq(s, 1, WordRun(s)))
            /\ res.value = TextOrAbsent(strip(AfterColon(s)))
            /\ res.type_name = (IF TypeMatches(s) THEN Str(strip(TypeGroup(s)))
                                ELSE PyNone)

====
